---- MODULE Spec2Model ----
(***************************************************************************)
(* Model of package dbtypes, type Date (src/date.go): a calendar date kept *)
(* as a time.Time.  A time.Time is modelled by the instant it denotes      *)
(* (whole days since 0001-01-01T00:00:00 UTC, the zero instant of package  *)
(* time, the second of that day and the nanosecond of that second)         *)
(* together with the offset of its location in seconds.                    *)
(* Text (Go strings and byte slices) is modelled as a sequence of          *)
(* one-character strings.                                                   *)
(***************************************************************************)
EXTENDS Integers, Sequences, FiniteSets, TLC

(***************************************************************************)
(* Bounds of the model.                                                     *)
(***************************************************************************)
\* calendar years of the dates handed to NewDate: FirstYear and YearLo..YearHi
FirstYear == 1
YearLo == 2015
YearHi == 2016
\* fixed-offset zones, in hours west and east of UTC
WestHours == 5
EastHours == 3

Years == {FirstYear} \cup (YearLo..YearHi)
\* a month of 31 days before a shorter one, February, a month of 30 days, December
Months == {1, 2, 4, 12}
\* the first day of a month and every day that can be its last
Days == {1, 28, 29, 30, 31}
Zones == {0 - WestHours * 3600, 0, EastHours * 3600}

(***************************************************************************)
(* Package time: the calendar.                                              *)
(***************************************************************************)
SecondsPerDay == 24 * 3600

IsLeap(y) == (y % 4 = 0 /\ y % 100 # 0) \/ y % 400 = 0

\* days before the first of month m (1..13) in a non-leap year
DaysBefore == <<0, 31, 59, 90, 120, 151, 181, 212, 243, 273, 304, 334, 365>>

DaysBeforeIn(y, m) == DaysBefore[m] + (IF IsLeap(y) /\ m >= 3 THEN 1 ELSE 0)

\* length of month m of year y in the Gregorian calendar
DaysIn(m, y) == IF m = 2 /\ IsLeap(y) THEN 29 ELSE DaysBefore[m + 1] - DaysBefore[m]

\* days from 0001-01-01 to the first of January of year y
DaysSinceEpoch(y) ==
    365 * (y - 1) + ((y - 1) \div 4) - ((y - 1) \div 100) + ((y - 1) \div 400)

\* time.Date(y, m, d, hh, mi, ss, ns, loc): month and day values outside their
\* ranges are normalised, the wall clock reading is taken in the location.
TimeDate(y, m, d, hh, mi, ss, ns, off) ==
    LET yy == y + ((m - 1) \div 12)
        mm == ((m - 1) % 12) + 1
        days == DaysSinceEpoch(yy) + DaysBeforeIn(yy, mm) + (d - 1)
        clock == hh * 3600 + mi * 60 + ss - off
    IN  [day |-> days + (clock \div SecondsPerDay), sod |-> clock % SecondsPerDay,
         nsec |-> ns, off |-> off]

\* the zero time.Time: 0001-01-01T00:00:00 UTC
ZeroTime == [day |-> 0, sod |-> 0, nsec |-> 0, off |-> 0]

\* the civil reading of a day number counted from 0001-01-01
Civil(days) ==
    LET n400 == days \div 146097
        d1 == days % 146097
        c100 == d1 \div 36524
        n100 == IF c100 = 4 THEN 3 ELSE c100
        d2 == d1 - 36524 * n100
        n4 == d2 \div 1461
        d3 == d2 % 1461
        c1 == d3 \div 365
        n1 == IF c1 = 4 THEN 3 ELSE c1
        yday == d3 - 365 * n1
        y == 400 * n400 + 100 * n100 + 4 * n4 + n1 + 1
        m == CHOOSE k \in 1..12 :
                 DaysBeforeIn(y, k) <= yday /\ yday < DaysBeforeIn(y, k + 1)
    IN  [year |-> y, month |-> m, day |-> yday - DaysBeforeIn(y, m) + 1]

\* the day and the second of the day that t reads in its own location
WallDay(t) == t.day + ((t.sod + t.off) \div SecondsPerDay)
WallSod(t) == (t.sod + t.off) % SecondsPerDay

\* time.Time.Date(), Clock(): the reading of t in its own location
TimeCivil(t) == Civil(WallDay(t))
TimeHour(t) == WallSod(t) \div 3600
TimeMinute(t) == (WallSod(t) % 3600) \div 60
TimeSecond(t) == WallSod(t) % 60

\* time.Time.IsZero
TimeIsZero(t) == t.day = 0 /\ t.sod = 0 /\ t.nsec = 0

\* time.Time.Truncate(24 * time.Hour).UTC(): rounds the instant down to a
\* multiple of 24h counted from the zero instant, whatever the location
Truncate24hUTC(t) == [day |-> t.day, sod |-> 0, nsec |-> 0, off |-> 0]

\* time.Time.Equal, Before, After: the order of the instants
TimeEqual(t, u) == t.day = u.day /\ t.sod = u.sod /\ t.nsec = u.nsec
TimeBefore(t, u) ==
    \/ t.day < u.day
    \/ t.day = u.day /\ t.sod < u.sod
    \/ t.day = u.day /\ t.sod = u.sod /\ t.nsec < u.nsec
TimeAfter(t, u) == TimeBefore(u, t)

\* the whole days in the largest time.Duration, 2^63 - 1 nanoseconds
MaxDurationDays == 106751

\* int(math.Abs(t.Sub(u).Hours() / 24)) for t and u multiples of 24h: Sub
\* returns the largest or the smallest Duration when the difference does not
\* fit, and the conversion to int drops the fraction of a day
AbsDaysOfSub(t, u) ==
    LET n == IF t.day >= u.day THEN t.day - u.day ELSE u.day - t.day
    IN  IF n > MaxDurationDays THEN MaxDurationDays ELSE n

\* time.Time.AddDate
TimeAddDate(t, years, months, days) ==
    LET c == TimeCivil(t)
    IN  TimeDate(c.year + years, c.month + months, c.day + days,
                 TimeHour(t), TimeMinute(t), TimeSecond(t), t.nsec, t.off)

(***************************************************************************)
(* Text: formatting and parsing of numbers, package fmt and strconv.        *)
(***************************************************************************)
DigitChars == <<"0", "1", "2", "3", "4", "5", "6", "7", "8", "9">>

IsDigit(c) == \E i \in 1..10 : DigitChars[i] = c

DigitVal(c) == (CHOOSE i \in 1..10 : DigitChars[i] = c) - 1

AllDigits(s) == \A i \in 1..Len(s) : IsDigit(s[i])

RECURSIVE Atoi(_)
Atoi(s) == IF s = <<>> THEN 0
           ELSE 10 * Atoi(SubSeq(s, 1, Len(s) - 1)) + DigitVal(s[Len(s)])

\* the verb %d
RECURSIVE Itoa(_)
Itoa(n) == IF n < 0 THEN <<"-">> \o Itoa(0 - n)
           ELSE IF n < 10 THEN <<DigitChars[n + 1]>>
           ELSE Itoa(n \div 10) \o <<DigitChars[(n % 10) + 1]>>

\* the flags 0 and width w of the verbs %02d and %02s: zeros on the left
RECURSIVE PadZero(_, _)
PadZero(s, w) == IF Len(s) >= w THEN s ELSE PadZero(<<"0">> \o s, w)

\* the Go slice expression s[lo:hi]
Slice(s, lo, hi) == SubSeq(s, lo + 1, hi)

\* strings.TrimSpace
RECURSIVE TrimLeft(_)
TrimLeft(s) == IF s # <<>> /\ s[1] = " " THEN TrimLeft(Tail(s)) ELSE s

RECURSIVE TrimRight(_)
TrimRight(s) == IF s # <<>> /\ s[Len(s)] = " "
                THEN TrimRight(SubSeq(s, 1, Len(s) - 1)) ELSE s

TrimSpace(s) == TrimRight(TrimLeft(s))

(***************************************************************************)
(* Package encoding/json, for the Go string type.                           *)
(***************************************************************************)
Quote == "\""
NullBytes == <<"n", "u", "l", "l">>

\* json.Marshal(s) of a string of plain characters
JSONMarshalString(s) == <<Quote>> \o s \o <<Quote>>

\* json.Unmarshal(data, &s) with s == "": white space around the value is
\* skipped, null leaves s as it is, a string literal is stored, any other
\* value is an error
JSONUnmarshalString(data) ==
    LET v == TrimSpace(data)
    IN  IF v = NullBytes THEN [err |-> FALSE, s |-> <<>>]
        ELSE IF Len(v) >= 2 /\ v[1] = Quote /\ v[Len(v)] = Quote
                /\ \A i \in 2..(Len(v) - 1) : v[i] # Quote
             THEN [err |-> FALSE, s |-> SubSeq(v, 2, Len(v) - 1)]
             ELSE [err |-> TRUE, s |-> <<>>]

(***************************************************************************)
(* Package time: text.                                                      *)
(***************************************************************************)
\* time.Parse(DateLayout, s) with DateLayout = "2006-01-02": whether it succeeds
TimeParseOK(s) ==
    /\ Len(s) = 10
    /\ AllDigits(Slice(s, 0, 4)) /\ s[5] = "-"
    /\ AllDigits(Slice(s, 5, 7)) /\ s[8] = "-"
    /\ AllDigits(Slice(s, 8, 10))
    /\ LET y == Atoi(Slice(s, 0, 4))
           m == Atoi(Slice(s, 5, 7))
           d == Atoi(Slice(s, 8, 10))
       IN  m \in 1..12 /\ d >= 1 /\ d <= DaysIn(m, y)

\* the zone of RFC 3339: Z, or the sign, hours and minutes of the offset
ZoneText(off) ==
    IF off = 0 THEN <<"Z">>
    ELSE LET a == IF off < 0 THEN 0 - off ELSE off
         IN  <<IF off < 0 THEN "-" ELSE "+">> \o PadZero(Itoa(a \div 3600), 2)
             \o <<":">> \o PadZero(Itoa((a % 3600) \div 60), 2)

RECURSIVE TrimZeros(_)
TrimZeros(s) == IF s # <<>> /\ s[Len(s)] = "0"
                THEN TrimZeros(SubSeq(s, 1, Len(s) - 1)) ELSE s

FracText(ns) == IF ns = 0 THEN <<>> ELSE <<".">> \o TrimZeros(PadZero(Itoa(ns), 9))

\* time.Time.MarshalJSON: the quoted RFC 3339 text of t in its own location;
\* an error for a year outside 0..9999
TimeMarshalJSON(t) ==
    LET c == TimeCivil(t)
    IN  IF c.year < 0 \/ c.year >= 10000 THEN [err |-> TRUE, bytes |-> <<>>]
        ELSE [err |-> FALSE,
              bytes |-> <<Quote>> \o PadZero(Itoa(c.year), 4) \o <<"-">>
                        \o PadZero(Itoa(c.month), 2) \o <<"-">>
                        \o PadZero(Itoa(c.day), 2) \o <<"T">>
                        \o PadZero(Itoa(TimeHour(t)), 2) \o <<":">>
                        \o PadZero(Itoa(TimeMinute(t)), 2) \o <<":">>
                        \o PadZero(Itoa(TimeSecond(t)), 2)
                        \o FracText(t.nsec) \o ZoneText(t.off) \o <<Quote>>]

\* time.Time.UnmarshalJSON of a quoted "YYYY-MM-DDThh:mm:ssZ": the time in UTC;
\* any other text is an error and stores the zero time
TimeUnmarshalJSON(data) ==
    LET s == SubSeq(data, 2, Len(data) - 1)
        ok == /\ Len(data) = 22 /\ data[1] = Quote /\ data[22] = Quote
              /\ TimeParseOK(Slice(s, 0, 10)) /\ s[11] = "T"
              /\ AllDigits(Slice(s, 11, 13)) /\ s[14] = ":"
              /\ AllDigits(Slice(s, 14, 16)) /\ s[17] = ":"
              /\ AllDigits(Slice(s, 17, 19)) /\ s[20] = "Z"
              /\ Atoi(Slice(s, 11, 13)) < 24 /\ Atoi(Slice(s, 14, 16)) < 60
              /\ Atoi(Slice(s, 17, 19)) < 60
    IN  IF ok
        THEN [err |-> FALSE,
              t |-> TimeDate(Atoi(Slice(s, 0, 4)), Atoi(Slice(s, 5, 7)),
                             Atoi(Slice(s, 8, 10)), Atoi(Slice(s, 11, 13)),
                             Atoi(Slice(s, 14, 16)), Atoi(Slice(s, 17, 19)), 0, 0)]
        ELSE [err |-> TRUE, t |-> ZeroTime]

\* time.Time.Format(DateLayout) for a year in 0..9999: the year in four
\* digits, the month and the day in two, read in the time's own location
TimeFormatDateLayout(t) ==
    LET c == TimeCivil(t)
    IN  PadZero(Itoa(c.year), 4) \o <<"-">> \o PadZero(Itoa(c.month), 2)
        \o <<"-">> \o PadZero(Itoa(c.day), 2)

(***************************************************************************)
(* Type Date and its methods (src/date.go).                                 *)
(***************************************************************************)
\* the text "0001-01-01" that UnmarshalJSON substitutes for a blank string
ZeroLiteral == <<"0", "0", "0", "1", "-", "0", "1", "-", "0", "1">>

\* the suffix "T00:00:00Z" that UnmarshalJSON appends
MidnightUTC == <<"T", "0", "0", ":", "0", "0", ":", "0", "0", "Z">>

Year(date) == TimeCivil(date).year
Month(date) == TimeCivil(date).month
Day(date) == TimeCivil(date).day

IsZero(date) == TimeIsZero(date)

NewDate(year, month, day, loc) == TimeDate(year, month, day, 0, 0, 0, 0, loc)

\* Format(layout) with layout = DateLayout
Format(date) == IF IsZero(date) THEN <<>> ELSE TimeFormatDateLayout(date)

String(date) ==
    Itoa(Year(date)) \o <<"-">> \o PadZero(Itoa(Month(date)), 2)
    \o <<"-">> \o PadZero(Itoa(Day(date)), 2)

\* MarshalJSON without its branch for the zero Date
MarshalJSONNoNull(date) ==
    LET r == TimeMarshalJSON(date)
        dateString == Slice(r.bytes, 1, Len(r.bytes) - 1)
    IN  IF r.err THEN [err |-> "SerializationError", bytes |-> <<>>]
        ELSE [err |-> "nil",
              bytes |-> <<Quote>> \o Slice(dateString, 0, 4) \o <<"-">>
                        \o PadZero(Slice(dateString, 5, 7), 2) \o <<"-">>
                        \o PadZero(Slice(dateString, 8, 10), 2) \o <<Quote>>]

MarshalJSON(date) ==
    IF TimeIsZero(date) THEN [err |-> "nil", bytes |-> NullBytes]
    ELSE LET r == TimeMarshalJSON(date)
             dateString == Slice(r.bytes, 1, Len(r.bytes) - 1)
         IN  IF r.err THEN [err |-> "SerializationError", bytes |-> <<>>]
             ELSE [err |-> "nil",
                   bytes |-> <<Quote>> \o Slice(dateString, 0, 4) \o <<"-">>
                             \o PadZero(Slice(dateString, 5, 7), 2) \o <<"-">>
                             \o PadZero(Slice(dateString, 8, 10), 2) \o <<Quote>>]

\* UnmarshalJSON without its return on null
UnmarshalJSONNullAsBlank(date, data) ==
    LET j == JSONUnmarshalString(data)
        s == IF TrimSpace(j.s) = <<>> THEN ZeroLiteral ELSE j.s
        r == TimeUnmarshalJSON(<<Quote>> \o s \o MidnightUTC \o <<Quote>>)
    IN  IF j.err THEN [err |-> "TypeError", date |-> date]
        ELSE IF ~TimeParseOK(s) THEN [err |-> "FormatError", date |-> date]
        ELSE [err |-> IF r.err THEN "ParseError" ELSE "nil", date |-> r.t]

\* UnmarshalJSON comparing the string with "" without trimming it
UnmarshalJSONNoTrim(date, data) ==
    LET j == JSONUnmarshalString(data)
        s == IF j.s = <<>> THEN ZeroLiteral ELSE j.s
        r == TimeUnmarshalJSON(<<Quote>> \o s \o MidnightUTC \o <<Quote>>)
    IN  IF j.err THEN [err |-> "TypeError", date |-> date]
        ELSE IF data = NullBytes THEN [err |-> "nil", date |-> date]
        ELSE IF ~TimeParseOK(s) THEN [err |-> "FormatError", date |-> date]
        ELSE [err |-> IF r.err THEN "ParseError" ELSE "nil", date |-> r.t]

UnmarshalJSON(date, data) ==
    LET j == JSONUnmarshalString(data)
        s == IF TrimSpace(j.s) = <<>> THEN ZeroLiteral ELSE j.s
        r == TimeUnmarshalJSON(<<Quote>> \o s \o MidnightUTC \o <<Quote>>)
    IN  IF j.err THEN [err |-> "TypeError", date |-> date]
        ELSE IF data = NullBytes THEN [err |-> "nil", date |-> date]
        ELSE IF ~TimeParseOK(s) THEN [err |-> "FormatError", date |-> date]
        ELSE [err |-> IF r.err THEN "ParseError" ELSE "nil", date |-> r.t]

ParseDate(dateStr) ==
    IF dateStr = <<>> THEN [err |-> "EmptyInputError", date |-> ZeroTime]
    ELSE UnmarshalJSON(ZeroTime, JSONMarshalString(dateStr))

\* FormScan without its return on the empty string
FormScanNoSkip(date, value) ==
    IF value.kind # "string" THEN [err |-> "TypeError", date |-> date]
    ELSE LET r == ParseDate(value.text)
         IN  IF r.err # "nil" THEN [err |-> r.err, date |-> date]
             ELSE [err |-> "nil", date |-> r.date]

\* value is a form value: [kind |-> "string", text |-> ...] or a value of
\* another dynamic type
FormScan(date, value) ==
    IF value.kind # "string" THEN [err |-> "TypeError", date |-> date]
    ELSE IF value.text = <<>> THEN [err |-> "nil", date |-> date]
    ELSE LET r == ParseDate(value.text)
         IN  IF r.err # "nil" THEN [err |-> r.err, date |-> date]
             ELSE [err |-> "nil", date |-> r.date]

\* After comparing the instants as they are
AfterNoTruncate(date, o) == TimeAfter(date, o)

Equal(date, o) == TimeEqual(Truncate24hUTC(date), Truncate24hUTC(o))
Before(date, o) == TimeBefore(Truncate24hUTC(date), Truncate24hUTC(o))
After(date, o) == TimeAfter(Truncate24hUTC(date), Truncate24hUTC(o))

DaysInMonth(date) ==
    LET nextMonth == TimeAddDate(date, 0, 1, 0)
        lastDayOfMonth == TimeDate(TimeCivil(nextMonth).year,
                                   TimeCivil(nextMonth).month,
                                   0, 0, 0, 0, 0, nextMonth.off)
    IN  TimeCivil(lastDayOfMonth).day

ToTime(d) == d

AddDate(date, years, months, days) == TimeAddDate(date, years, months, days)
AddDays(date, days) == AddDate(date, 0, 0, days)
AddMonths(date, months) == AddDate(date, 0, months, 0)
AddYears(date, years) == AddDate(date, years, 0, 0)

\* Today() when time.Now() returns now
Today(now) == NewDate(TimeCivil(now).year, TimeCivil(now).month, TimeCivil(now).day, now.off)

\* a driver value: nil, a time.Time, or a value of another type
DriverNil == [kind |-> "nil", t |-> ZeroTime]
DriverTime(t) == [kind |-> "time", t |-> t]
DriverInt == [kind |-> "int64", t |-> ZeroTime]
DriverString == [kind |-> "string", t |-> ZeroTime]

\* sql.NullTime.Scan on a new NullTime: nil leaves the zero Time and is not
\* valid, a time.Time is stored, any other value is an error of convertAssign
\* that stores nothing
NullTimeScan(value) ==
    IF value.kind = "nil" THEN [err |-> "nil", Time |-> ZeroTime, Valid |-> FALSE]
    ELSE IF value.kind = "time" THEN [err |-> "nil", Time |-> value.t, Valid |-> TRUE]
    ELSE [err |-> "ConversionError", Time |-> ZeroTime, Valid |-> TRUE]

\* Scan storing the Time only when the NullTime is valid
ScanStoresValidOnly(date, value) ==
    LET nullTime == NullTimeScan(value)
    IN  [err |-> nullTime.err,
         date |-> IF nullTime.Valid THEN nullTime.Time ELSE date]

Scan(date, value) ==
    LET nullTime == NullTimeScan(value)
    IN  [err |-> nullTime.err, date |-> nullTime.Time]

\* time.Time.GobEncode: the version, the instant, and the offset of the zone
\* in minutes, -1 for UTC
GobEncode(date) ==
    [version |-> 1, day |-> date.day, sod |-> date.sod, nsec |-> date.nsec,
     offmin |-> IF date.off = 0 THEN -1 ELSE date.off \div 60]

\* time.Time.GobDecode: bytes of another version are an error and store nothing
GobDecode(date, b) ==
    IF b.version # 1 THEN [err |-> "GobError", date |-> date]
    ELSE [err |-> "nil",
          date |-> [day |-> b.day, sod |-> b.sod, nsec |-> b.nsec,
                    off |-> IF b.offmin = -1 THEN 0 ELSE b.offmin * 60]]

DaysBetween(d, o) ==
    LET start == Truncate24hUTC(ToTime(d))
        end == Truncate24hUTC(ToTime(o))
    IN  AbsDaysOfSub(end, start)

(***************************************************************************)
(* The state: one Date variable of a program using the package, the zone    *)
(* of the process (time.Local), and the last call with its input and        *)
(* results.                                                                 *)
(***************************************************************************)
VARIABLES
    local,   \* offset of time.Local, fixed for the life of the process
    date,    \* the Date the program holds: the receiver of the methods
    other,   \* the argument of the last Equal, Before or After
    op,      \* the last call
    arg,     \* its text or form value argument
    out,     \* the text it returned
    num,     \* the number it returned
    res,     \* the boolean it returned
    err      \* the error it returned, "nil" for none

vars == <<local, date, other, op, arg, out, num, res, err>>

NoArg == [kind |-> "none", text |-> <<>>]
StringArg(s) == [kind |-> "string", text |-> s]
BytesArg(b) == [kind |-> "bytes", text |-> b]
IntArg == [kind |-> "int", text |-> <<"4", "2">>]

\* the calendar days handed to NewDate
Grid ==
    {g \in (YearLo..YearHi) \X Months \X Days : g[3] <= DaysIn(g[2], g[1])}
    \cup {<<FirstYear, 1, 1>>, <<FirstYear, 12, 31>>}

\* texts that are not dates written as YYYY-MM-DD
BadTexts == {
    <<" ">>,
    <<"2", "0", "2", "3", "-", "1", "3", "-", "0", "1">>,
    <<"0", "1", "-", "1", "0", "-", "2", "0", "2", "3">>,
    <<" ", "2", "0", "1", "5", "-", "1", "0", "-", "2", "1">>,
    <<"2", "0", "1", "5", "-", "1", "0", "-", "2", "1", " ">>,
    <<"2", "0", "1", "5", "-", "0", "2", "-", "2", "9">>,
    <<"2", "0", "1", "5", "/", "1", "0", "/", "2", "1">>}

\* texts written as YYYY-MM-DD
GoodTexts == {
    <<"2", "0", "1", "5", "-", "1", "0", "-", "2", "1">>,
    <<"2", "0", "2", "3", "-", "1", "0", "-", "0", "1">>,
    <<"0", "0", "0", "1", "-", "0", "1", "-", "0", "1">>}

Texts == BadTexts \cup GoodTexts

\* the byte slices handed to UnmarshalJSON: null, null with white space
\* around it, a number, string literals
JSONInputs ==
    {NullBytes, <<" ">> \o NullBytes, IntArg.text, JSONMarshalString(<<>>)}
    \cup {JSONMarshalString(s) : s \in Texts}

\* the values handed to FormScan
FormValues == {IntArg, StringArg(<<>>)} \cup {StringArg(s) : s \in Texts}

\* the Dates compared with the receiver: the zero Date, midnight in any zone
\* of the receiver's day and of the days next to it, and the last second of
\* the receiver's day in the local zone
CompareOperands(d) ==
    {ZeroTime} \cup
    {TimeDate(Year(d), Month(d), Day(d) + k, 0, 0, 0, 0, z) : k \in -1..1, z \in Zones}
    \cup {TimeDate(Year(d), Month(d), Day(d), 23, 59, 59, 999, local)}

Init ==
    /\ local \in Zones
    /\ date = ZeroTime
    /\ other = ZeroTime
    /\ op = "init"
    /\ arg = NoArg
    /\ out = <<>>
    /\ num = 0
    /\ res = FALSE
    /\ err = "nil"

\* date = NewDate(y, m, d)
CallNewDate ==
    \E g \in Grid :
        /\ date' = NewDate(g[1], g[2], g[3], local)
        /\ op' = "NewDate"
        /\ arg' = NoArg /\ out' = <<>> /\ num' = 0 /\ res' = FALSE /\ err' = "nil"
        /\ other' = ZeroTime
        /\ UNCHANGED local

\* date, err = ParseDate(s), with s a text or the text last returned
CallParseDate ==
    \E s \in Texts \cup {<<>>, out} :
        LET r == ParseDate(s)
        IN  /\ date' = r.date
            /\ err' = r.err
            /\ op' = "ParseDate"
            /\ arg' = StringArg(s)
            /\ out' = <<>> /\ num' = 0 /\ res' = FALSE
            /\ other' = ZeroTime
            /\ UNCHANGED local

\* err = date.UnmarshalJSON(data), with data an input or the bytes last returned
CallUnmarshalJSON ==
    \E data \in JSONInputs \cup {out} :
        LET r == UnmarshalJSON(date, data)
        IN  /\ date' = r.date
            /\ err' = r.err
            /\ op' = "UnmarshalJSON"
            /\ arg' = BytesArg(data)
            /\ out' = <<>> /\ num' = 0 /\ res' = FALSE
            /\ other' = ZeroTime
            /\ UNCHANGED local

\* err = date.FormScan(value), with value an input or the text last returned
CallFormScan ==
    \E value \in FormValues \cup {StringArg(out)} :
        LET r == FormScan(date, value)
        IN  /\ date' = r.date
            /\ err' = r.err
            /\ op' = "FormScan"
            /\ arg' = value
            /\ out' = <<>> /\ num' = 0 /\ res' = FALSE
            /\ other' = ZeroTime
            /\ UNCHANGED local

\* out, err = date.MarshalJSON()
CallMarshalJSON ==
    LET r == MarshalJSON(date)
    IN  /\ out' = r.bytes
        /\ err' = r.err
        /\ op' = "MarshalJSON"
        /\ arg' = NoArg /\ num' = 0 /\ res' = FALSE
        /\ other' = ZeroTime
        /\ UNCHANGED <<local, date>>

\* out = date.String()
CallString ==
    /\ out' = String(date)
    /\ op' = "String"
    /\ arg' = NoArg /\ num' = 0 /\ res' = FALSE /\ err' = "nil"
    /\ other' = ZeroTime
    /\ UNCHANGED <<local, date>>

\* out = date.Format(DateLayout)
CallFormat ==
    /\ out' = Format(date)
    /\ op' = "Format"
    /\ arg' = NoArg /\ num' = 0 /\ res' = FALSE /\ err' = "nil"
    /\ other' = ZeroTime
    /\ UNCHANGED <<local, date>>

\* num = date.DaysInMonth()
CallDaysInMonth ==
    /\ num' = DaysInMonth(date)
    /\ op' = "DaysInMonth"
    /\ arg' = NoArg /\ out' = <<>> /\ res' = FALSE /\ err' = "nil"
    /\ other' = ZeroTime
    /\ UNCHANGED <<local, date>>

\* res = date.Equal(o)
CallEqual ==
    \E o \in CompareOperands(date) :
        /\ res' = Equal(date, o)
        /\ other' = o
        /\ op' = "Equal"
        /\ arg' = NoArg /\ out' = <<>> /\ num' = 0 /\ err' = "nil"
        /\ UNCHANGED <<local, date>>

\* res = date.Before(o)
CallBefore ==
    \E o \in CompareOperands(date) :
        /\ res' = Before(date, o)
        /\ other' = o
        /\ op' = "Before"
        /\ arg' = NoArg /\ out' = <<>> /\ num' = 0 /\ err' = "nil"
        /\ UNCHANGED <<local, date>>

\* res = date.After(o)
CallAfter ==
    \E o \in CompareOperands(date) :
        /\ res' = After(date, o)
        /\ other' = o
        /\ op' = "After"
        /\ arg' = NoArg /\ out' = <<>> /\ num' = 0 /\ err' = "nil"
        /\ UNCHANGED <<local, date>>

\* the timestamps a driver hands to Scan: midnight of a day in UTC and in
\* the local zone, and a time of another day with a time of day
ScanTimes ==
    {TimeDate(YearLo, 12, 31, 0, 0, 0, 0, z) : z \in {0, local}}
    \cup {TimeDate(YearHi, 6, 15, 13, 45, 30, 1000, 0)}

DriverValues == {DriverNil, DriverInt, DriverString} \cup {DriverTime(t) : t \in ScanTimes}

\* the bytes handed to GobDecode: encoded times, and bytes of no known version
GobInputs ==
    {GobEncode(t) : t \in ScanTimes \cup {ZeroTime}}
    \cup {[GobEncode(ZeroTime) EXCEPT !.version = 0]}

\* the readings of the clock when Today is called
ClockTimes ==
    {TimeDate(YearHi, 1, 1, 13, 45, 30, 1000, local),
     TimeDate(YearHi, 12, 31, 23, 59, 59, 0, local)}

\* the day of t is one of Grid: the model follows AddDate no further
InGrid(t) == <<Year(t), Month(t), Day(t)>> \in Grid

\* err = date.Scan(value)
CallScan ==
    \E value \in DriverValues :
        LET r == Scan(date, value)
        IN  /\ date' = r.date
            /\ err' = r.err
            /\ op' = "Scan"
            /\ arg' = [kind |-> value.kind, text |-> <<>>]
            /\ out' = <<>> /\ num' = 0 /\ res' = FALSE
            /\ other' = ZeroTime
            /\ UNCHANGED local

\* err = date.GobDecode(b)
CallGobDecode ==
    \E b \in GobInputs :
        LET r == GobDecode(date, b)
        IN  /\ date' = r.date
            /\ err' = r.err
            /\ op' = "GobDecode"
            /\ arg' = [kind |-> "gob", text |-> <<>>]
            /\ out' = <<>> /\ num' = 0 /\ res' = FALSE
            /\ other' = ZeroTime
            /\ UNCHANGED local

\* date = Today()
CallToday ==
    \E now \in ClockTimes :
        /\ date' = Today(now)
        /\ op' = "Today"
        /\ arg' = NoArg /\ out' = <<>> /\ num' = 0 /\ res' = FALSE /\ err' = "nil"
        /\ other' = ZeroTime
        /\ UNCHANGED local

\* date = date.AddDate(years, months, days)
CallAddDate ==
    \E a \in {<<0, 1, 1>>, <<1, 0, -1>>} :
        LET r == AddDate(date, a[1], a[2], a[3])
        IN  /\ InGrid(r)
            /\ date' = r
            /\ op' = "AddDate"
            /\ arg' = NoArg /\ out' = <<>> /\ num' = 0 /\ res' = FALSE /\ err' = "nil"
            /\ other' = ZeroTime
            /\ UNCHANGED local

\* date = date.AddDays(days)
CallAddDays ==
    \E n \in {-1, 1} :
        LET r == AddDays(date, n)
        IN  /\ InGrid(r)
            /\ date' = r
            /\ op' = "AddDays"
            /\ arg' = NoArg /\ out' = <<>> /\ num' = 0 /\ res' = FALSE /\ err' = "nil"
            /\ other' = ZeroTime
            /\ UNCHANGED local

\* date = date.AddMonths(months)
CallAddMonths ==
    \E n \in {-1, 1} :
        LET r == AddMonths(date, n)
        IN  /\ InGrid(r)
            /\ date' = r
            /\ op' = "AddMonths"
            /\ arg' = NoArg /\ out' = <<>> /\ num' = 0 /\ res' = FALSE /\ err' = "nil"
            /\ other' = ZeroTime
            /\ UNCHANGED local

\* date = date.AddYears(years)
CallAddYears ==
    \E n \in {-1, 1} :
        LET r == AddYears(date, n)
        IN  /\ InGrid(r)
            /\ date' = r
            /\ op' = "AddYears"
            /\ arg' = NoArg /\ out' = <<>> /\ num' = 0 /\ res' = FALSE /\ err' = "nil"
            /\ other' = ZeroTime
            /\ UNCHANGED local

\* the Dates handed to DaysBetween: NewDate of the receiver's day and of the
\* days next to it, of that day a year later and of the first day of FirstYear
DaysBetweenOperands(d) ==
    {NewDate(Year(d), Month(d), Day(d) + k, local) : k \in -1..1} \cup
    {NewDate(Year(d) + 1, Month(d), Day(d), local), NewDate(FirstYear, 1, 1, local)}

\* num = date.DaysBetween(o)
CallDaysBetween ==
    \E o \in DaysBetweenOperands(date) :
        /\ num' = DaysBetween(date, o)
        /\ other' = o
        /\ op' = "DaysBetween"
        /\ arg' = NoArg /\ out' = <<>> /\ res' = FALSE /\ err' = "nil"
        /\ UNCHANGED <<local, date>>

Next ==
    \/ CallNewDate
    \/ CallParseDate
    \/ CallUnmarshalJSON
    \/ CallFormScan
    \/ CallMarshalJSON
    \/ CallString
    \/ CallFormat
    \/ CallDaysInMonth
    \/ CallEqual
    \/ CallBefore
    \/ CallAfter
    \/ CallDaysBetween
    \/ CallScan
    \/ CallGobDecode
    \/ CallToday
    \/ CallAddDate
    \/ CallAddDays
    \/ CallAddMonths
    \/ CallAddYears

Spec == Init /\ [][Next]_vars

(***************************************************************************)
(* Properties.                                                              *)
(***************************************************************************)
\* t reads midnight in its own location
IsMidnight(t) == WallSod(t) = 0 /\ t.nsec = 0

\* the calendar day (y, m, d) written as YYYY-MM-DD
DateLayoutText(y, m, d) ==
    PadZero(Itoa(y), 4) \o <<"-">> \o PadZero(Itoa(m), 2) \o <<"-">> \o PadZero(Itoa(d), 2)

\* a JSON string literal that is empty or holds only white space
IsBlankJSONString(b) ==
    /\ Len(b) >= 2 /\ b[1] = Quote /\ b[Len(b)] = Quote
    /\ \A i \in 2..(Len(b) - 1) : b[i] = " "

\* C1: two Dates that hold midnight of the same calendar day, each in its
\* own zone, are Equal, and neither is Before nor After the other.
C1_SameDayAnyZoneEqual ==
    (/\ op \in {"Equal", "Before", "After"}
     /\ IsMidnight(date) /\ IsMidnight(other)
     /\ TimeCivil(date) = TimeCivil(other))
    => (res = (op = "Equal"))

\* C2: DaysInMonth returns the length of the month of the date, for every
\* day of the month it is called on.
C2_DaysInMonthIsMonthLength ==
    op = "DaysInMonth" => num = DaysIn(Month(date), Year(date))

\* C3: ParseDate of the YYYY-MM-DD text of the day (y, m, d) succeeds and
\* returns a Date Equal to NewDate(y, m, d), whatever the local zone.
C3_ParseRoundTrip ==
    \A g \in Grid :
        (op = "ParseDate" /\ arg.text = DateLayoutText(g[1], g[2], g[3]))
        => (err = "nil" /\ Equal(date, NewDate(g[1], g[2], g[3], local)))

\* C4: the bytes MarshalJSON returns for a non-zero Date decode, with
\* UnmarshalJSON on a fresh Date, to a Date Equal to it.
C4_MarshalUnmarshalRoundTrip ==
    (op = "MarshalJSON" /\ ~IsZero(date))
    => (/\ err = "nil"
        /\ UnmarshalJSON(ZeroTime, out).err = "nil"
        /\ Equal(UnmarshalJSON(ZeroTime, out).date, date))

\* C5: UnmarshalJSON of the literal null returns no error and leaves the
\* receiver as it was.
C5_NullLeavesReceiver ==
    [][(op' = "UnmarshalJSON" /\ arg'.text = NullBytes)
       => (err' = "nil" /\ date' = date)]_vars

C5_Witness ==
    /\ op = "UnmarshalJSON" /\ arg.text = NullBytes
    /\ err = "nil" /\ ~IsZero(date)

\* C6: UnmarshalJSON of an empty or blank JSON string returns no error and
\* sets the receiver to the zero Date, as decoding "0001-01-01" does.
C6_BlankStringIsZero ==
    (op = "UnmarshalJSON" /\ IsBlankJSONString(arg.text))
    => (/\ err = "nil" /\ IsZero(date)
        /\ date = UnmarshalJSON(date, JSONMarshalString(ZeroLiteral)).date)

C6_Witness ==
    /\ op = "UnmarshalJSON" /\ arg.text = <<Quote, " ", Quote>>
    /\ err = "nil" /\ IsZero(date)

\* C7: ParseDate returns a Date without error exactly for the texts that are
\* a calendar date written strictly as YYYY-MM-DD, and an error for every
\* other text, the empty and the blank ones included.
C7_ParseDateStrict ==
    op = "ParseDate" => ((err = "nil") <=> TimeParseOK(arg.text))

\* C8: FormScan of the empty string returns no error and leaves the receiver
\* as it was.
C8_EmptyFormValueLeavesReceiver ==
    [][(op' = "FormScan" /\ arg' = StringArg(<<>>))
       => (err' = "nil" /\ date' = date)]_vars

C8_Witness ==
    /\ op = "FormScan" /\ arg = StringArg(<<>>)
    /\ err = "nil" /\ ~IsZero(date)

\* C9: String renders the date as YYYY-MM-DD with the year padded to four
\* digits, the zero Date as 0001-01-01.
C9_StringIsPadded ==
    (op = "String" /\ Year(date) \in 0..9999)
    => out = DateLayoutText(Year(date), Month(date), Day(date))

\* C10: MarshalJSON returns null exactly for the zero Date, and for any other
\* Date of a year in 0..9999 the quoted ten characters YYYY-MM-DD of the
\* year, month and day the Date reads in its own zone.
C10_MarshalJSONText ==
    (op = "MarshalJSON" /\ Year(date) \in 0..9999)
    => (/\ err = "nil"
        /\ (out = NullBytes) <=> IsZero(date)
        /\ ~IsZero(date) =>
              /\ out = <<Quote>> \o DateLayoutText(Year(date), Month(date), Day(date))
                       \o <<Quote>>
              /\ Len(out) = 12)

C10_Witness ==
    /\ op = "MarshalJSON" /\ ~IsZero(date) /\ date.off # 0
    /\ Year(date) < 1000 /\ Month(date) < 10
    /\ out = <<Quote>> \o ZeroLiteral \o <<Quote>>

\* C11: for two Dates built by NewDate in the same zone, DaysBetween is not
\* negative, is the same in both directions, and is the number of calendar
\* days from one day to the other.
C11_DaysBetweenIsCalendarDistance ==
    (/\ op = "DaysBetween"
     /\ IsMidnight(date) /\ IsMidnight(other)
     /\ date.off = local /\ other.off = local)
    => (/\ num >= 0
        /\ num = DaysBetween(other, date)
        /\ num = (IF WallDay(other) >= WallDay(date)
                  THEN WallDay(other) - WallDay(date)
                  ELSE WallDay(date) - WallDay(other)))

\* C12: whatever NewDate, Today, ParseDate, UnmarshalJSON, FormScan, Scan,
\* GobDecode and AddDate, AddDays, AddMonths, AddYears calls were made from
\* the zero Date, the Date held reads hour, minute, second and nanosecond
\* zero in its own zone.
C12_ClockAlwaysZero ==
    /\ TimeHour(date) = 0 /\ TimeMinute(date) = 0 /\ TimeSecond(date) = 0
    /\ date.nsec = 0

\* C13: Scan of a nil driver value returns no error and sets the receiver to
\* the zero Date; Scan of a value that is no timestamp returns an error.
C13_ScanNilAndBadValue ==
    op = "Scan"
    => (/\ arg.kind = "nil" => (err = "nil" /\ IsZero(date))
        /\ arg.kind \in {"int64", "string"} => err # "nil")

C13_Witness ==
    /\ op = "Scan" /\ arg.kind = "nil"
    /\ err = "nil" /\ IsZero(date)

\* C14: of Before, Equal and After on the same two Dates exactly one is
\* true, a.Before(b) is b.After(a), and Equal Dates are neither Before nor
\* After each other.
C14_Trichotomy ==
    op \in {"Equal", "Before", "After"}
    => LET e == IF op = "Equal" THEN res ELSE Equal(date, other)
           b == IF op = "Before" THEN res ELSE Before(date, other)
           a == IF op = "After" THEN res ELSE After(date, other)
       IN  /\ e \/ b \/ a
           /\ ~(e /\ b) /\ ~(e /\ a) /\ ~(b /\ a)
           /\ b = After(other, date)
           /\ a = Before(other, date)

C14_Witness ==
    /\ op = "Equal" /\ res = TRUE
    /\ ~IsMidnight(date) /\ ~IsMidnight(other)
    /\ date.off # other.off

\* C15: when Scan, UnmarshalJSON or FormScan returns an error, the receiver
\* holds the value it had before the call.
C15_ErrorLeavesReceiver ==
    [][(op' \in {"Scan", "UnmarshalJSON", "FormScan"} /\ err' # "nil")
       => date' = date]_vars

====
